---- MODULE Spec2Model ----
(***************************************************************************)
(* Model of the faah-sound extension: the DebounceGate                     *)
(* (src/src/core/debounce.ts), the RollingPatternMatcher and               *)
(* stripAnsiSequences (src/src/core/patternMatcher.ts) and the             *)
(* FaaahController that wires them together (src/src/extension.ts).        *)
(*                                                                         *)
(* Strings are sequences of character codes (UTF-16 code units), so that   *)
(* the character classes of ANSI_SEQUENCE_PATTERN are the code ranges the  *)
(* regular expression names.                                               *)
(***************************************************************************)
EXTENDS Integers, Sequences, FiniteSets, TLC

VARIABLES
    debounceGate,   \* DebounceGate: [lastTriggeredAt, debounceMs]
    gateLog,        \* observer: the last calls made on the gate, oldest first
    lastAllowed,    \* observer: the time of the latest allowed canTrigger call (-1: none)
    firstCall,      \* observer: the first canTrigger call made on the gate (fresh: no call of any kind preceded it)
    stripPc,        \* stripAnsiSequences applied zero, one or two times: "input", "once", "twice"
    stripIn,        \* the string given to stripAnsiSequences
    stripOnce,      \* stripAnsiSequences(stripIn)
    stripTwice,     \* stripAnsiSequences(stripOnce)
    buffers,        \* RollingPatternMatcher.buffers: a function from the keys present to their text
    maxBufferChars, \* RollingPatternMatcher.maxBufferChars
    matcherArg,     \* observer: the argument the matcher was constructed with
    hist,           \* observer: per session, the matches calls since its last clear: [chunk, ok]
    phase,          \* "constructed", "initializing" (initialize awaits the first reload), "ready" (handlers registered)
    settings,       \* the workspace configuration faaahSound.* as the user has set it
    readable,       \* the files fs.access(path, R_OK) succeeds on
    clock,          \* Date.now()
    config,         \* FaaahController.config
    resolvedSoundPath,  \* FaaahController.resolvedSoundPath
    soundPathReady,     \* FaaahController.soundPathReady
    lastPlaybackError,  \* FaaahController.lastPlaybackError
    reloads,        \* the reloadConfiguration calls suspended at an await
    plays,          \* the playSound calls awaiting soundPlayer.play: the path each was given
    lastEvent,      \* observer: the step just taken and what it did
    lastCompletion, \* observer: the failure message of the latest playSound to end ("": it succeeded, or none has ended)
    playLog         \* observer: the last two playback requests made by triggerSound: [at, window]

gateObs == <<gateLog, lastAllowed, firstCall>>
gateVars == <<debounceGate, gateObs>>
stripVars == <<stripPc, stripIn, stripOnce, stripTwice>>

matcherObs == <<matcherArg, hist>>
matcherVars == <<buffers, maxBufferChars, matcherObs>>

ctrlEnv == <<settings, readable, clock>>
ctrlFields == <<phase, config, resolvedSoundPath, soundPathReady, lastPlaybackError>>
ctrlAsync == <<reloads, plays>>
ctrlObs == <<lastEvent, lastCompletion, playLog>>
ctrlVars == <<ctrlEnv, ctrlFields, ctrlAsync, ctrlObs>>

vars == <<gateVars, stripVars, matcherVars, ctrlVars>>
notGateVars == <<stripVars, matcherVars, ctrlVars>>
notStripVars == <<gateVars, matcherVars, ctrlVars>>
notMatcherVars == <<gateVars, stripVars, ctrlVars>>

(***************************************************************************)
(* Bounds of the model.                                                    *)
(***************************************************************************)
MaxTime == 5        \* timestamps passed to canTrigger directly: 0..MaxTime
MaxWindow == 2      \* windows passed to the gate directly: -1..MaxWindow
MaxStripLen == 4    \* length of the strings given to stripAnsiSequences directly
MaxFed == 4         \* matches calls the matcher observer remembers, all sessions together
Epoch == 100000     \* Date.now() at activation; later than any window (at most 60000) after 0
MaxTicks == 1       \* milliseconds the controller's clock advances
MaxReloads == 1     \* reloadConfiguration calls suspended at one time while terminal events are delivered
MaxOverlap == 2     \* reloadConfiguration calls suspended at one time when configuration changes are all that happens
MaxPlays == 1       \* playSound calls awaiting the player at one time
MaxScanned == 1     \* chunks the controller has in its buffers, all sessions together
\* The buffer caps are scaled down so that the model can fill a buffer: the
\* source enforces a minimum of 256 characters and defaults to 4096.
MinBufferChars == 5       \* stands for 256
DefaultBufferChars == 6   \* stands for 4096

(***************************************************************************)
(* DebounceGate, src/src/core/debounce.ts                                  *)
(***************************************************************************)
\* The numbers of the gate are integers.  Three integers that no timestamp
\* or window of the model comes near stand for the values of a JavaScript
\* number that are not finite: Infinity is above and NegInfinity below every
\* other number; NaN is compared through Less and LessOrEqual only, which
\* are false for it as < and <= are.
Infinity == 1000000000
NegInfinity == -1000000000
NaN == -999999999

\* a < b
Less(a, b) == a # NaN /\ b # NaN /\ a < b

\* a <= b
LessOrEqual(a, b) == a # NaN /\ b # NaN /\ a <= b

\* Math.max(0, debounceMs): NaN for NaN
ClampWindow(ms) == IF ms = NaN THEN NaN ELSE IF ms > 0 THEN ms ELSE 0

\* new DebounceGate(debounceMs): lastTriggeredAt = 0
NewDebounceGate(ms) == [lastTriggeredAt |-> 0, debounceMs |-> ClampWindow(ms)]

\* mutant: the update also restarts the window
updateDebounceMs_Reset(gate, ms) ==
    [lastTriggeredAt |-> 0, debounceMs |-> ClampWindow(ms)]

\* updateDebounceMs(debounceMs): lastTriggeredAt is left alone
updateDebounceMs(gate, ms) == [gate EXCEPT !.debounceMs = ClampWindow(ms)]

\* mutant: the zero window allows the call without recording it
canTrigger_ZeroNoRecord(gate, now) ==
    IF gate.debounceMs <= 0
    THEN [ok |-> TRUE, gate |-> gate]
    ELSE IF now - gate.lastTriggeredAt < gate.debounceMs
         THEN [ok |-> FALSE, gate |-> gate]
         ELSE [ok |-> TRUE, gate |-> [gate EXCEPT !.lastTriggeredAt = now]]

\* mutant: the zero-window test is written < 0, so a zero window falls
\* through to the elapsed-time comparison
canTrigger_StrictZero(gate, now) ==
    IF gate.debounceMs < 0
    THEN [ok |-> TRUE, gate |-> [gate EXCEPT !.lastTriggeredAt = now]]
    ELSE IF now - gate.lastTriggeredAt < gate.debounceMs
         THEN [ok |-> FALSE, gate |-> gate]
         ELSE [ok |-> TRUE, gate |-> [gate EXCEPT !.lastTriggeredAt = now]]

\* mutant: a suppressed call restarts the window
canTrigger_RecordSuppressed(gate, now) ==
    IF gate.debounceMs <= 0
    THEN [ok |-> TRUE, gate |-> [gate EXCEPT !.lastTriggeredAt = now]]
    ELSE IF now - gate.lastTriggeredAt < gate.debounceMs
         THEN [ok |-> FALSE, gate |-> [gate EXCEPT !.lastTriggeredAt = now]]
         ELSE [ok |-> TRUE, gate |-> [gate EXCEPT !.lastTriggeredAt = now]]

\* mutant: an allowed call does not record its time
canTrigger_NoRecord(gate, now) ==
    IF gate.debounceMs <= 0
    THEN [ok |-> TRUE, gate |-> [gate EXCEPT !.lastTriggeredAt = now]]
    ELSE IF now - gate.lastTriggeredAt < gate.debounceMs
         THEN [ok |-> FALSE, gate |-> gate]
         ELSE [ok |-> TRUE, gate |-> gate]

\* canTrigger(now): the returned value (ok) and the gate after the call
canTrigger(gate, now) ==
    IF LessOrEqual(gate.debounceMs, 0)
    THEN [ok |-> TRUE, gate |-> [gate EXCEPT !.lastTriggeredAt = now]]
    ELSE IF Less(now - gate.lastTriggeredAt, gate.debounceMs)
         THEN [ok |-> FALSE, gate |-> gate]
         ELSE [ok |-> TRUE, gate |-> [gate EXCEPT !.lastTriggeredAt = now]]

(***************************************************************************)
(* stripAnsiSequences, src/src/core/patternMatcher.ts                      *)
(*                                                                         *)
(* ANSI_SEQUENCE_PATTERN =                                                 *)
(*   /\x1B(?:[@-Z\\-_]|\[[0-?]*[ -/]*[@-~]|\][^\x07]*(?:\x07|\x1B\\))/g    *)
(* A match starts at an ESC and is the first alternative, in the order     *)
(* written, that matches there.                                            *)
(***************************************************************************)
ESC == 27
BEL == 7

\* the first index >= i of s that is past the end of s or holds a code
\* outside lo..hi: where a greedy [lo-hi]* that starts at i stops
RECURSIVE SkipClass(_, _, _, _)
SkipClass(s, i, lo, hi) ==
    IF i <= Len(s) /\ s[i] >= lo /\ s[i] <= hi
    THEN SkipClass(s, i + 1, lo, hi)
    ELSE i

\* [@-Z\\-_] after the ESC at i: the index of the last character matched, 0
\* when there is no match
SingleEnd(s, i) ==
    IF /\ i + 1 <= Len(s)
       /\ \/ (s[i+1] >= 64 /\ s[i+1] <= 90)
          \/ (s[i+1] >= 92 /\ s[i+1] <= 95)
    THEN i + 1
    ELSE 0

\* \[[0-?]*[ -/]*[@-~] after the ESC at i. The three classes are disjoint, so
\* the greedy match is the only one: no shorter run of [0-?] or [ -/] can be
\* followed by a character of the next class.
CsiEnd(s, i) ==
    IF i + 1 <= Len(s) /\ s[i+1] = 91
    THEN LET k == SkipClass(s, SkipClass(s, i + 2, 48, 63), 32, 47)
         IN  IF k <= Len(s) /\ s[k] >= 64 /\ s[k] <= 126 THEN k ELSE 0
    ELSE 0

\* \][^\x07]*(?:\x07|\x1B\\) after the ESC at i: the greedy [^\x07]* runs to
\* the first BEL, which then ends the match; with no BEL it runs to the end of
\* s and backtracks to the last ESC \ it passed.
OscEnd(s, i) ==
    IF i + 1 <= Len(s) /\ s[i+1] = 93
    THEN LET bel == IF \E j \in (i+2)..Len(s) : s[j] = BEL
                    THEN CHOOSE j \in (i+2)..Len(s) :
                            s[j] = BEL /\ \A h \in (i+2)..(j-1) : s[h] # BEL
                    ELSE 0
             sts == {p \in (i+2)..(Len(s)-1) : s[p] = ESC /\ s[p+1] = 92}
         IN  IF bel > 0 THEN bel
             ELSE IF sts # {} THEN (CHOOSE p \in sts : \A q \in sts : q <= p) + 1
             ELSE 0
    ELSE 0

\* the index of the last character of the match of ANSI_SEQUENCE_PATTERN that
\* starts at i, 0 when none starts there
MatchEnd(s, i) ==
    IF s[i] # ESC THEN 0
    ELSE IF SingleEnd(s, i) > 0 THEN SingleEnd(s, i)
    ELSE IF CsiEnd(s, i) > 0 THEN CsiEnd(s, i)
    ELSE OscEnd(s, i)

\* value.replace(ANSI_SEQUENCE_PATTERN, "") from index i on: matches are
\* looked for left to right, the search resuming after each match
RECURSIVE StripFrom(_, _)
StripFrom(s, i) ==
    IF i > Len(s) THEN <<>>
    ELSE IF MatchEnd(s, i) > 0 THEN StripFrom(s, MatchEnd(s, i) + 1)
    ELSE <<s[i]>> \o StripFrom(s, i + 1)

stripAnsiSequences(value) == StripFrom(value, 1)

(***************************************************************************)
(* RollingPatternMatcher, src/src/core/patternMatcher.ts                   *)
(*                                                                         *)
(* A RegExp is one that parseErrorPatterns can produce from the pattern     *)
(* sources of the model: a literal, or a literal between two \b, compiled  *)
(* with the "i" flag only: [lit, wb].  Such a pattern is neither global    *)
(* nor sticky, so testRegExp has no lastIndex to reset and                 *)
(* pattern.test(text) keeps no state.                                      *)
(***************************************************************************)
\* new RollingPatternMatcher(maxBufferChars = DefaultBufferChars):
\* Math.max(MinBufferChars, maxBufferChars)
NewMaxBufferChars(arg) ==
    LET given == IF arg.given THEN arg.value ELSE DefaultBufferChars
    IN  IF given > MinBufferChars THEN given ELSE MinBufferChars

\* mutant: the oldest characters are kept
trimToMax_Prefix(value, maxChars) ==
    IF Len(value) <= maxChars THEN value ELSE SubSeq(value, 1, maxChars)

\* trimToMax(value, maxChars): value.slice(value.length - maxChars)
trimToMax(value, maxChars) ==
    IF Len(value) <= maxChars
    THEN value
    ELSE SubSeq(value, Len(value) - maxChars + 1, Len(value))

\* the case folding of the "i" flag on the letters A-Z
FoldCase(c) == IF c >= 65 /\ c <= 90 THEN c + 32 ELSE c

\* a word character of \b: [A-Za-z0-9_]
IsWordChar(c) ==
    \/ (c >= 48 /\ c <= 57) \/ (c >= 65 /\ c <= 90) \/ (c >= 97 /\ c <= 122) \/ c = 95

\* \b between text[p] and text[p+1] (the ends of the text count as non-word)
WordBoundary(text, p) ==
    (p >= 1 /\ p <= Len(text) /\ IsWordChar(text[p]))
        # (p + 1 >= 1 /\ p + 1 <= Len(text) /\ IsWordChar(text[p + 1]))

\* testRegExp(pattern, text): pattern.test(text) for a pattern with the "i"
\* flag only
testRegExp(pattern, text) ==
    \E i \in 1..(Len(text) - Len(pattern.lit) + 1) :
        /\ \A j \in 1..Len(pattern.lit) :
              FoldCase(text[i + j - 1]) = FoldCase(pattern.lit[j])
        /\ pattern.wb =>
              /\ WordBoundary(text, i - 1)
              /\ WordBoundary(text, i + Len(pattern.lit) - 1)

\* mutant: one buffer serves every key
BufferGet_Shared(bufs, key) ==
    IF DOMAIN bufs = {} THEN <<>>
    ELSE bufs[CHOOSE k \in DOMAIN bufs : \A h \in DOMAIN bufs : k <= h]

\* this.buffers.get(key) ?? ""
BufferGet(bufs, key) == IF key \in DOMAIN bufs THEN bufs[key] ELSE <<>>

\* this.buffers.set(key, text)
BufferSet(bufs, key, text) ==
    [k \in DOMAIN bufs \cup {key} |-> IF k = key THEN text ELSE bufs[k]]

\* mutant: clear leaves the buffer where it is
matcherClear_Keep(bufs, key) == bufs

\* clear(key): this.buffers.delete(key)
matcherClear(bufs, key) == [k \in DOMAIN bufs \ {key} |-> bufs[k]]

\* mutant: the chunk is appended as it came, escape sequences included
Combine_NoStrip(previous, chunk, maxChars) == trimToMax(previous \o chunk, maxChars)

\* trimToMax(previous + stripAnsiSequences(chunk), this.maxBufferChars)
Combine(previous, chunk, maxChars) ==
    trimToMax(previous \o stripAnsiSequences(chunk), maxChars)

\* mutant: only the new chunk is tested
matcherMatches_ChunkOnly(bufs, maxChars, key, chunk, patterns) ==
    LET combined == Combine(BufferGet(bufs, key), chunk, maxChars)
    IN  [ok |-> \E n \in 1..Len(patterns) :
                    testRegExp(patterns[n], stripAnsiSequences(chunk)),
         buffers |-> BufferSet(bufs, key, combined)]

\* matches(key, chunk, patterns): the returned value (ok) and the buffers
\* after the call
matcherMatches(bufs, maxChars, key, chunk, patterns) ==
    LET combined == Combine(BufferGet(bufs, key), chunk, maxChars)
    IN  [ok |-> \E n \in 1..Len(patterns) : testRegExp(patterns[n], combined),
         buffers |-> BufferSet(bufs, key, combined)]

(***************************************************************************)
(* The configuration normalizers (core/configParser), found in             *)
(* src/src/extension.ts lines 401-481.                                     *)
(*                                                                         *)
(* A raw setting is a JavaScript value: a number (finite numbers are       *)
(* counted in tenths, so that 2.8 is JsNumber(28)), a string (its text a   *)
(* sequence of character codes), an array of values, undefined (the        *)
(* setting is not set) or something else.                                  *)
(***************************************************************************)
JsNumber(t) == [type |-> "number", kind |-> "finite", tenths |-> t]
JsNaN == [type |-> "number", kind |-> "NaN"]
JsInfinity == [type |-> "number", kind |-> "+Infinity"]
JsNegInfinity == [type |-> "number", kind |-> "-Infinity"]
JsString(text) == [type |-> "string", text |-> text]
JsArray(items) == [type |-> "array", items |-> items]
JsUndefined == [type |-> "undefined"]
JsObject == [type |-> "object"]

\* typeof raw === "number" && Number.isFinite(raw)
IsFiniteNumber(raw) == raw.type = "number" /\ raw.kind = "finite"

\* mutant: Math.floor of the number t/10
Trunc_Floor(t) == t \div 10

\* Math.trunc of the number t/10
Trunc(t) == IF t >= 0 THEN t \div 10 ELSE -((-t) \div 10)

DEFAULT_DEBOUNCE_MS == 1200

\* \bword\b
WordPattern(word) == <<92, 98>> \o word \o <<92, 98>>

\* \bError\b, \bTypeError\b, \bFATAL\b, \bException\b, \bTraceback\b
DEFAULT_ERROR_PATTERNS ==
    << WordPattern(<<69, 114, 114, 111, 114>>),
       WordPattern(<<84, 121, 112, 101, 69, 114, 114, 111, 114>>),
       WordPattern(<<70, 65, 84, 65, 76>>),
       WordPattern(<<69, 120, 99, 101, 112, 116, 105, 111, 110>>),
       WordPattern(<<84, 114, 97, 99, 101, 98, 97, 99, 107>>) >>

\* [130]
DEFAULT_IGNORE_EXIT_CODES == <<JsNumber(1300)>>

\* mutant: no upper clamp (Math.min left out)
normalizeDebounceMs_NoUpperClamp(raw) ==
    IF ~IsFiniteNumber(raw) THEN DEFAULT_DEBOUNCE_MS
    ELSE Trunc(IF raw.tenths > 0 THEN raw.tenths ELSE 0)

\* normalizeDebounceMs(raw): Math.trunc(Math.max(0, Math.min(60000, raw)))
normalizeDebounceMs(raw) ==
    IF ~IsFiniteNumber(raw) THEN DEFAULT_DEBOUNCE_MS
    ELSE LET low == IF raw.tenths < 600000 THEN raw.tenths ELSE 600000
             clamped == IF low > 0 THEN low ELSE 0
         IN  Trunc(clamped)

\* normalizeUnknownArray(raw, fallback)
normalizeUnknownArray(raw, fallback) ==
    IF raw.type # "array" THEN fallback ELSE raw.items

\* the loop of normalizeIgnoreExitCodes over values[i..], unique holding the
\* codes added so far in the order they were added
RECURSIVE IgnoreLoop(_, _, _)
IgnoreLoop(values, i, unique) ==
    IF i > Len(values) THEN unique
    ELSE IF ~IsFiniteNumber(values[i]) THEN IgnoreLoop(values, i + 1, unique)
    ELSE LET normalized == Trunc(values[i].tenths)
         IN  IF normalized = 0 THEN IgnoreLoop(values, i + 1, unique)
             ELSE IF \E j \in 1..Len(unique) : unique[j] = normalized
                  THEN IgnoreLoop(values, i + 1, unique)
                  ELSE IgnoreLoop(values, i + 1, Append(unique, normalized))

\* normalizeIgnoreExitCodes(raw): [...unique]
normalizeIgnoreExitCodes(raw) ==
    IgnoreLoop(normalizeUnknownArray(raw, DEFAULT_IGNORE_EXIT_CODES), 1, <<>>)

\* the texts of the string elements of items[i..], in order
RECURSIVE StringsOf(_, _)
StringsOf(items, i) ==
    IF i > Len(items) THEN <<>>
    ELSE IF items[i].type = "string" THEN <<items[i].text>> \o StringsOf(items, i + 1)
    ELSE StringsOf(items, i + 1)

\* normalizeStringArray(raw, fallback)
normalizeStringArray(raw, fallback) ==
    IF raw.type # "array" THEN fallback ELSE StringsOf(raw.items, 1)

\* white space as String.prototype.trim sees it (tab, LF, VT, FF, CR, space)
IsSpace(c) == (c >= 9 /\ c <= 13) \/ c = 32

\* mutant: only leading white space is removed
RECURSIVE TrimText_LeadingOnly(_)
TrimText_LeadingOnly(text) ==
    IF text = <<>> THEN text
    ELSE IF IsSpace(text[1]) THEN TrimText_LeadingOnly(SubSeq(text, 2, Len(text)))
    ELSE text

\* text.trim()
RECURSIVE TrimText(_)
TrimText(text) ==
    IF text = <<>> THEN text
    ELSE IF IsSpace(text[1]) THEN TrimText(SubSeq(text, 2, Len(text)))
    ELSE IF IsSpace(text[Len(text)]) THEN TrimText(SubSeq(text, 1, Len(text) - 1))
    ELSE text

\* new RegExp(pattern, "i") for the pattern sources of the model: a source
\* with a "[" that no "]" closes does not compile (throws); \bword\b compiles
\* to the word between word boundaries; any other source is a literal
CompileRegExp(pattern) ==
    IF \E i \in 1..Len(pattern) :
          pattern[i] = 91 /\ \A j \in (i+1)..Len(pattern) : pattern[j] # 93
    THEN [ok |-> FALSE]
    ELSE IF /\ Len(pattern) > 4
            /\ SubSeq(pattern, 1, 2) = <<92, 98>>
            /\ SubSeq(pattern, Len(pattern) - 1, Len(pattern)) = <<92, 98>>
         THEN [ok |-> TRUE,
               regexp |-> [lit |-> SubSeq(pattern, 3, Len(pattern) - 2), wb |-> TRUE]]
         ELSE [ok |-> TRUE, regexp |-> [lit |-> pattern, wb |-> FALSE]]

\* the loop of parseErrorPatterns over candidates[i..]
RECURSIVE ParseLoop(_, _, _)
ParseLoop(candidates, i, result) ==
    IF i > Len(candidates) THEN result
    ELSE LET pattern == TrimText(candidates[i])
         IN  IF Len(pattern) = 0 THEN ParseLoop(candidates, i + 1, result)
             ELSE IF CompileRegExp(pattern).ok
                  THEN ParseLoop(candidates, i + 1,
                         [result EXCEPT !.compiled = Append(@, CompileRegExp(pattern).regexp)])
                  ELSE ParseLoop(candidates, i + 1,
                         [result EXCEPT !.invalid = Append(@, pattern)])

\* parseErrorPatterns(raw)
parseErrorPatterns(raw) ==
    ParseLoop(normalizeStringArray(raw, DEFAULT_ERROR_PATTERNS), 1,
              [compiled |-> <<>>, invalid |-> <<>>])

(***************************************************************************)
(* Sound paths, src/src/extension.ts.  A path setting is                   *)
(* [pad, form, name, ext]: pad says that white space surrounds it, form is *)
(* "empty", "abs" (absolute), "home" (~/...) or "rel" (relative).  A       *)
(* resolved file is [base, name, ext].                                     *)
(***************************************************************************)
EmptyPath == [pad |-> FALSE, form |-> "empty", name |-> "", ext |-> ""]

\* customSoundPath.trim()
TrimPath(p) == [p EXCEPT !.pad = FALSE]

\* resolveBundledSoundPath(context): media/faaah.mp3 of the extension
resolveBundledSoundPath == [base |-> "extension", name |-> "faaah", ext |-> ".mp3"]

\* a workspace folder is open (vscode.workspace.workspaceFolders?.[0])
WorkspaceFolderOpen == TRUE

\* resolveSoundPath(customSoundPath, context)
resolveSoundPath(customSoundPath) ==
    LET trimmed == TrimPath(customSoundPath)
    IN  IF trimmed.form = "empty" THEN resolveBundledSoundPath
        ELSE IF trimmed.form = "home"
             THEN [base |-> "home", name |-> trimmed.name, ext |-> trimmed.ext]
        ELSE IF trimmed.form = "abs"
             THEN [base |-> "root", name |-> trimmed.name, ext |-> trimmed.ext]
        ELSE IF WorkspaceFolderOpen
             THEN [base |-> "workspace", name |-> trimmed.name, ext |-> trimmed.ext]
        ELSE [base |-> "cwd", name |-> trimmed.name, ext |-> trimmed.ext]

\* path.extname(soundPath).toLowerCase()
LowerExt(ext) ==
    IF ext = ".WAV" THEN ".wav" ELSE IF ext = ".MP3" THEN ".mp3" ELSE ext

\* SUPPORTED_SOUND_EXTENSIONS.has(extension)
SupportedExt(file) == LowerExt(file.ext) \in {".wav", ".mp3"}

\* validateSoundPath(soundPath) when readableFiles are the files fs.access
\* can read: "none" for undefined, else which error
validateSoundPath(file, readableFiles) ==
    IF ~SupportedExt(file) THEN "unsupported"
    ELSE IF file \notin readableFiles THEN "unreadable"
    ELSE "none"

\* readRuntimeConfig(configuration): get(key, default) gives the default for
\* a setting that is not set
GetSetting(value, default) == IF value.type = "undefined" THEN default ELSE value

readRuntimeConfig(configuration) ==
    LET patternResult ==
            parseErrorPatterns(GetSetting(configuration.errorPatterns,
                JsArray([i \in 1..Len(DEFAULT_ERROR_PATTERNS) |->
                            JsString(DEFAULT_ERROR_PATTERNS[i])])))
        ignoreExitCodes ==
            normalizeIgnoreExitCodes(GetSetting(configuration.ignoreExitCodes,
                JsArray(DEFAULT_IGNORE_EXIT_CODES)))
    IN  [enabled |-> configuration.enabled,
         customSoundPath |-> TrimPath(configuration.customSoundPath),
         outputScanningEnabled |-> configuration.outputScanningEnabled,
         debounceMs |-> normalizeDebounceMs(GetSetting(configuration.debounceMs,
                                                       JsNumber(DEFAULT_DEBOUNCE_MS * 10))),
         compiledPatterns |-> patternResult.compiled,
         invalidPatterns |-> patternResult.invalid,
         ignoreExitCodeSet |-> {ignoreExitCodes[i] : i \in 1..Len(ignoreExitCodes)}]

(***************************************************************************)
(* FaaahController, src/src/extension.ts: what the environment can hold    *)
(* and the controller as its constructor leaves it.                        *)
(***************************************************************************)
\* the terminals (session keys)
Sessions == {1, 2}

\* the sound files of the model: the bundled sound, /beep.WAV, ~/notes.txt
\* and gone.mp3 in the workspace folder
BeepFile == [base |-> "root", name |-> "beep", ext |-> ".WAV"]
NotesFile == [base |-> "home", name |-> "notes", ext |-> ".txt"]
GoneFile == [base |-> "workspace", name |-> "gone", ext |-> ".mp3"]

\* what fs.access can read: everything but gone.mp3, or only the custom files
\* (the bundled sound is missing too)
FileSystems ==
    { {resolveBundledSoundPath, BeepFile, NotesFile}, {BeepFile, NotesFile} }

\* the settings a user can have:
\*   no custom sound, debounceMs 1.8, patterns "ab" and "[bad", ignoreExitCodes not set
\*   " /beep.WAV ", debounceMs 0, errorPatterns not set, ignoreExitCodes [2, "9", 0, 130]
\*   "~/notes.txt", scanning off, debounceMs "abc", pattern " ab ", ignoreExitCodes "x"
\*   "gone.mp3", debounceMs 2, no patterns, ignoreExitCodes []
SettingsChoices ==
    { [enabled |-> TRUE, customSoundPath |-> EmptyPath, outputScanningEnabled |-> TRUE,
       debounceMs |-> JsNumber(18),
       errorPatterns |-> JsArray(<<JsString(<<97, 98>>), JsString(<<91, 98, 97, 100>>)>>),
       ignoreExitCodes |-> JsUndefined],
      [enabled |-> TRUE,
       customSoundPath |-> [pad |-> TRUE, form |-> "abs", name |-> "beep", ext |-> ".WAV"],
       outputScanningEnabled |-> TRUE,
       debounceMs |-> JsNumber(0),
       errorPatterns |-> JsUndefined,
       ignoreExitCodes |-> JsArray(<<JsNumber(20), JsString(<<57>>), JsNumber(0), JsNumber(1300)>>)],
      [enabled |-> TRUE,
       customSoundPath |-> [pad |-> FALSE, form |-> "home", name |-> "notes", ext |-> ".txt"],
       outputScanningEnabled |-> FALSE,
       debounceMs |-> JsString(<<97, 98, 99>>),
       errorPatterns |-> JsArray(<<JsString(<<32, 97, 98, 32>>)>>),
       ignoreExitCodes |-> JsString(<<120>>)],
      [enabled |-> TRUE,
       customSoundPath |-> [pad |-> FALSE, form |-> "rel", name |-> "gone", ext |-> ".mp3"],
       outputScanningEnabled |-> TRUE,
       debounceMs |-> JsNumber(20),
       errorPatterns |-> JsArray(<<>>),
       ignoreExitCodes |-> JsArray(<<>>)] }

\* lastEvent when the last step was not the handling of a terminal event, of
\* the closing of a terminal, of a test-sound command or of the end of a
\* playback
NoEvent == [kind |-> "none"]

\* the constructor of FaaahController and its field initializers; the
\* environment it starts in
CtrlConstructed ==
    /\ phase = "constructed"
    /\ config = [enabled |-> TRUE, customSoundPath |-> EmptyPath,
                 outputScanningEnabled |-> TRUE, debounceMs |-> DEFAULT_DEBOUNCE_MS,
                 compiledPatterns |-> <<>>, invalidPatterns |-> <<>>,
                 ignoreExitCodeSet |-> {Trunc(DEFAULT_IGNORE_EXIT_CODES[1].tenths)}]
    /\ resolvedSoundPath = [base |-> "", name |-> "", ext |-> ""]
    /\ soundPathReady = FALSE
    /\ lastPlaybackError = ""
    /\ reloads = <<>>
    /\ plays = <<>>
    /\ clock = Epoch
    /\ lastEvent = NoEvent
    /\ lastCompletion = ""
    /\ playLog = <<>>

\* the controller is constructed and never activated
CtrlIdle ==
    /\ CtrlConstructed
    /\ settings = CHOOSE c \in SettingsChoices : c.customSoundPath = EmptyPath
    /\ readable = {resolveBundledSoundPath}

(***************************************************************************)
(* The gate on its own: a gate constructed with any window, then any       *)
(* sequence of canTrigger(now) and updateDebounceMs(ms) calls, the         *)
(* timestamps in any order.                                                *)
(***************************************************************************)
GateTimes == 0..MaxTime
GateWindows == (-1)..MaxWindow

\* the last three entries of log with entry appended
Remember(log, entry) ==
    LET all == Append(log, entry)
    IN  IF Len(all) <= 3 THEN all ELSE SubSeq(all, Len(all) - 2, Len(all))

\* a canTrigger call as the observer records it: window is the gate's window
\* when the call was made, prev the time of the latest allowed call before it
\* (-1: none)
TriggerEntry(now, ok, window, prev) ==
    [op |-> "canTrigger", now |-> now, ok |-> ok, window |-> window, prev |-> prev]

UpdateEntry ==
    [op |-> "updateDebounceMs", now |-> 0, ok |-> FALSE, window |-> 0, prev |-> -1]

\* the gate observer before any call
GateObsInit ==
    /\ gateLog = <<>>
    /\ lastAllowed = -1
    /\ firstCall = [made |-> FALSE, fresh |-> FALSE, now |-> 0, ok |-> FALSE, window |-> 0]

\* nothing has been given to stripAnsiSequences directly
StripIdle ==
    /\ stripPc = "input" /\ stripIn = <<>> /\ stripOnce = <<>> /\ stripTwice = <<>>

\* the matcher as the controller constructs it, with no call made yet
MatcherFresh ==
    /\ buffers = <<>>
    /\ matcherArg = [given |-> FALSE, value |-> 0]
    /\ maxBufferChars = NewMaxBufferChars(matcherArg)
    /\ hist = [k \in Sessions |-> <<>>]

GateInit ==
    /\ \E ms \in GateWindows : debounceGate = NewDebounceGate(ms)
    /\ GateObsInit
    /\ StripIdle
    /\ MatcherFresh
    /\ CtrlIdle

GateCanTrigger(now) ==
    LET r == canTrigger(debounceGate, now)
    IN  /\ debounceGate' = r.gate
        /\ gateLog' = Remember(gateLog,
                        TriggerEntry(now, r.ok, debounceGate.debounceMs, lastAllowed))
        /\ lastAllowed' = IF r.ok THEN now ELSE lastAllowed
        /\ firstCall' = IF firstCall.made THEN firstCall
                        ELSE [made |-> TRUE, fresh |-> (gateLog = <<>>), now |-> now,
                              ok |-> r.ok, window |-> debounceGate.debounceMs]
        /\ UNCHANGED notGateVars

GateUpdateDebounceMs(ms) ==
    /\ debounceGate' = updateDebounceMs(debounceGate, ms)
    /\ gateLog' = Remember(gateLog, UpdateEntry)
    /\ UNCHANGED <<lastAllowed, firstCall>>
    /\ UNCHANGED notGateVars

GateNext ==
    \/ \E now \in GateTimes : GateCanTrigger(now)
    \/ \E ms \in GateWindows : GateUpdateDebounceMs(ms)

SpecGate == GateInit /\ [][GateNext]_vars

(***************************************************************************)
(* The gate on its own, given windows that are negative or not finite.     *)
(***************************************************************************)
\* -1, -2, NaN, +Infinity, -Infinity
EdgeWindows == {-1, -2, NaN, Infinity, NegInfinity}

GateEdgeInit ==
    /\ \E ms \in EdgeWindows : debounceGate = NewDebounceGate(ms)
    /\ GateObsInit
    /\ StripIdle
    /\ MatcherFresh
    /\ CtrlIdle

GateEdgeNext ==
    \/ \E now \in GateTimes : GateCanTrigger(now)
    \/ \E ms \in EdgeWindows : GateUpdateDebounceMs(ms)

SpecGateEdge == GateEdgeInit /\ [][GateEdgeNext]_vars

(***************************************************************************)
(* stripAnsiSequences on its own: any string over StripAlphabet of length  *)
(* at most MaxStripLen, stripped once and then once more.                  *)
(***************************************************************************)
\* BEL, ESC, "3", "A", "[", "]", "m"
StripAlphabet == {BEL, ESC, 51, 65, 91, 93, 109}

StripInputs == UNION {[1..n -> StripAlphabet] : n \in 0..MaxStripLen}

StripInit ==
    /\ stripPc = "input"
    /\ stripIn \in StripInputs
    /\ stripOnce = <<>>
    /\ stripTwice = <<>>
    /\ debounceGate = NewDebounceGate(0)
    /\ GateObsInit
    /\ MatcherFresh
    /\ CtrlIdle

StripFirst ==
    /\ stripPc = "input"
    /\ stripOnce' = stripAnsiSequences(stripIn)
    /\ stripPc' = "once"
    /\ UNCHANGED <<stripIn, stripTwice, notStripVars>>

StripSecond ==
    /\ stripPc = "once"
    /\ stripTwice' = stripAnsiSequences(stripOnce)
    /\ stripPc' = "twice"
    /\ UNCHANGED <<stripIn, stripOnce, notStripVars>>

StripNext == StripFirst \/ StripSecond

SpecStrip == StripInit /\ [][StripNext]_vars

(***************************************************************************)
(* The matcher on its own: a matcher constructed with or without a         *)
(* maxBufferChars argument, then any interleaving of matches and clear     *)
(* calls on two sessions, with one list of patterns.                       *)
(***************************************************************************)
\* "a", "A" ESC, "[mb", ESC "[mb", "xxxxxx"
MatcherChunks ==
    { <<97>>, <<65, ESC>>, <<91, 109, 98>>, <<ESC, 91, 109, 98>>,
      <<120, 120, 120, 120, 120, 120>> }

\* /xa/i, /ab/i
MatcherPatterns ==
    << [lit |-> <<120, 97>>, wb |-> FALSE], [lit |-> <<97, 98>>, wb |-> FALSE] >>

\* no argument (the default), 0 (below the minimum), one above the default
MatcherArgs ==
    { [given |-> FALSE, value |-> 0],
      [given |-> TRUE, value |-> 0],
      [given |-> TRUE, value |-> DefaultBufferChars + 1] }

\* matches calls remembered, all sessions together
Remembered(h) == Len(h[1]) + Len(h[2])

MatcherInit ==
    /\ buffers = <<>>
    /\ matcherArg \in MatcherArgs
    /\ maxBufferChars = NewMaxBufferChars(matcherArg)
    /\ hist = [k \in Sessions |-> <<>>]
    /\ debounceGate = NewDebounceGate(0)
    /\ GateObsInit
    /\ StripIdle
    /\ CtrlIdle

MatcherMatchesCall(key, chunk) ==
    LET r == matcherMatches(buffers, maxBufferChars, key, chunk, MatcherPatterns)
    IN  /\ Remembered(hist) < MaxFed
        /\ buffers' = r.buffers
        /\ hist' = [hist EXCEPT ![key] = Append(@, [chunk |-> chunk, ok |-> r.ok])]
        /\ UNCHANGED <<maxBufferChars, matcherArg, notMatcherVars>>

MatcherClearCall(key) ==
    /\ buffers' = matcherClear(buffers, key)
    /\ hist' = [hist EXCEPT ![key] = <<>>]
    /\ UNCHANGED <<maxBufferChars, matcherArg, notMatcherVars>>

MatcherNext ==
    \/ \E key \in Sessions, chunk \in MatcherChunks : MatcherMatchesCall(key, chunk)
    \/ \E key \in Sessions : MatcherClearCall(key)

SpecMatcher == MatcherInit /\ [][MatcherNext]_vars

(***************************************************************************)
(* FaaahController: activation, configuration reloads, terminal events,    *)
(* commands and playback.  Handlers run to completion; a handler that      *)
(* awaits I/O (fs.access, the player) is split at the await, and what      *)
(* follows the await runs as a later step.                                 *)
(***************************************************************************)
\* event.data of a terminal-data event: "ab", "Error"
CtrlChunks == { <<97, 98>>, <<69, 114, 114, 111, 114>> }

\* event.exitCode: undefined, 0, 1, 2, 130
ExitCodes ==
    { [given |-> FALSE, code |-> 0] } \cup { [given |-> TRUE, code |-> c] : c \in {0, 1, 2, 130} }

\* how soundPlayer.play fails on a supported file: the player's process
\* exits with an error
PlayFailures == {"player exited"}

\* what an awaited soundPlayer.play(path) can end with: "" for success
PlayOutcomes == {""} \cup PlayFailures

\* mutant: every failure is shown
playbackEnded_AlwaysNotify(lastError, failure) ==
    IF failure = ""
    THEN [lastPlaybackError |-> "", notified |-> FALSE]
    ELSE [lastPlaybackError |-> failure, notified |-> TRUE]

\* mutant: a success does not forget the last failure
playbackEnded_SuccessKeepsError(lastError, failure) ==
    IF failure = ""
    THEN [lastPlaybackError |-> lastError, notified |-> FALSE]
    ELSE IF failure # lastError
    THEN [lastPlaybackError |-> failure, notified |-> TRUE]
    ELSE [lastPlaybackError |-> lastError, notified |-> FALSE]

\* playSound() from the end of soundPlayer.play on: the try block's
\* assignment for a success (failure = ""), the catch block otherwise;
\* notified says whether showErrorMessage is called
playbackEnded(lastError, failure) ==
    IF failure = ""
    THEN [lastPlaybackError |-> "", notified |-> FALSE]
    ELSE IF failure # lastError
    THEN [lastPlaybackError |-> failure, notified |-> TRUE]
    ELSE [lastPlaybackError |-> lastError, notified |-> FALSE]

\* playSound() up to its await.  soundPlayer.play throws "Unsupported sound
\* format" before it starts any process, so that failure is caught and
\* recorded before any other handler runs; for a .wav or .mp3 file the play
\* is left awaiting the player.
playSound(pending, lastError, file) ==
    IF SupportedExt(file)
    THEN [plays |-> Append(pending, file), lastPlaybackError |-> lastError,
          threw |-> FALSE, notified |-> FALSE]
    ELSE LET r == playbackEnded(lastError, "unsupported format")
         IN  [plays |-> pending, lastPlaybackError |-> r.lastPlaybackError,
              threw |-> TRUE, notified |-> r.notified]

\* playSound when `play` says it is called, and nothing otherwise
PlaySoundIf(play) ==
    IF play THEN playSound(plays, lastPlaybackError, resolvedSoundPath)
    ELSE [plays |-> plays, lastPlaybackError |-> lastPlaybackError,
          threw |-> FALSE, notified |-> FALSE]

\* s without its i-th element
RemoveAt(s, i) == [j \in 1..(Len(s) - 1) |-> IF j < i THEN s[j] ELSE s[j + 1]]

\* the last two entries of log with entry appended
Latest(log, entry) ==
    IF Len(log) < 2 THEN Append(log, entry) ELSE <<log[2], entry>>

\* mutant: the sound-path check is the only one made
triggerSound_NoDebounce(ready, gate, now) ==
    IF ~ready THEN [asked |-> FALSE, play |-> FALSE, gate |-> gate]
    ELSE [asked |-> TRUE, play |-> TRUE, gate |-> canTrigger(gate, now).gate]

\* triggerSound(reason): whether the gate was asked, whether playSound is
\* called, and the gate afterwards
triggerSound(ready, gate, now) ==
    IF ~ready THEN [asked |-> FALSE, play |-> FALSE, gate |-> gate]
    ELSE LET r == canTrigger(gate, now)
         IN  [asked |-> TRUE, play |-> r.ok, gate |-> r.gate]

\* the part of a handler that ends in triggerSound: the gate, the playSound
\* call and the log of the requests made under the window in force
TriggerSoundStep(t, session, reason) ==
    LET p == PlaySoundIf(t.play)
    IN  /\ debounceGate' = t.gate
        /\ plays' = p.plays
        /\ lastPlaybackError' = p.lastPlaybackError
        /\ lastCompletion' = IF p.threw THEN "unsupported format" ELSE lastCompletion
        /\ playLog' = IF t.play
                      THEN Latest(playLog,
                                  [at |-> clock, session |-> session, reason |-> reason])
                      ELSE playLog

\* reloadConfiguration(initialLoad), from its start to its first await of
\* I/O.  validateSoundPath awaits fs.access only for a supported extension;
\* for an unsupported one it returns at once and the reload goes on, within
\* the same step, to the validation of the bundled fallback.
ReloadConfiguration(configuration, initialLoad) ==
    LET cfg == readRuntimeConfig(configuration)
        path == resolveSoundPath(cfg.customSoundPath)
    IN  /\ config' = cfg
        /\ debounceGate' = updateDebounceMs(debounceGate, cfg.debounceMs)
        /\ playLog' = IF debounceGate'.debounceMs = debounceGate.debounceMs
                      THEN playLog ELSE <<>>
        /\ resolvedSoundPath' = path
        /\ IF SupportedExt(path)
           THEN /\ reloads' = Append(reloads,
                        [pc |-> "validating", path |-> path, initialLoad |-> initialLoad,
                         validationError |-> "none"])
                /\ UNCHANGED <<soundPathReady>>
                /\ phase' = IF initialLoad THEN "initializing" ELSE phase
           ELSE IF cfg.customSoundPath.form # "empty"
           THEN /\ reloads' = Append(reloads,
                        [pc |-> "fallback", path |-> path, initialLoad |-> initialLoad,
                         validationError |-> "unsupported"])
                /\ UNCHANGED <<soundPathReady>>
                /\ phase' = IF initialLoad THEN "initializing" ELSE phase
           ELSE /\ soundPathReady' = FALSE
                /\ UNCHANGED <<reloads>>
                /\ phase' = IF initialLoad THEN "ready" ELSE phase

\* activate(context): initialize() runs the first reloadConfiguration(true)
\* and awaits it before it registers any handler
Activate ==
    /\ phase = "constructed"
    /\ ReloadConfiguration(settings, TRUE)
    /\ lastEvent' = NoEvent
    /\ UNCHANGED lastCompletion
    /\ UNCHANGED <<settings, readable, clock, lastPlaybackError, plays>>
    /\ UNCHANGED <<gateObs, stripVars, matcherVars>>

\* the user changes the settings: onDidChangeConfiguration starts
\* reloadConfiguration(false)
ConfigurationChanged(new) ==
    /\ phase = "ready"
    /\ new # settings
    /\ settings' = new
    /\ ReloadConfiguration(new, FALSE)
    /\ lastEvent' = NoEvent
    /\ UNCHANGED lastCompletion
    /\ UNCHANGED <<readable, clock, lastPlaybackError, plays>>
    /\ UNCHANGED <<gateObs, stripVars, matcherVars>>

\* the command faaahSound.toggle: toggleEnabled() writes the negated setting,
\* which fires onDidChangeConfiguration
ToggleCommand ==
    /\ phase = "ready"
    /\ settings' = [settings EXCEPT !.enabled = ~settings.enabled]
    /\ ReloadConfiguration(settings', FALSE)
    /\ lastEvent' = NoEvent
    /\ UNCHANGED lastCompletion
    /\ UNCHANGED <<readable, clock, lastPlaybackError, plays>>
    /\ UNCHANGED <<gateObs, stripVars, matcherVars>>

\* what the completion of a reload does to the registration of the handlers
ReloadEnds(i) ==
    /\ reloads' = RemoveAt(reloads, i)
    /\ phase' = IF reloads[i].initialLoad THEN "ready" ELSE phase

\* reloadConfiguration after `await validateSoundPath(this.resolvedSoundPath)`
ReloadValidated(i) ==
    /\ i \in 1..Len(reloads)
    /\ reloads[i].pc = "validating"
    /\ LET validationError == validateSoundPath(reloads[i].path, readable)
       IN  IF validationError = "none"
           THEN /\ soundPathReady' = TRUE
                /\ ReloadEnds(i)
           ELSE IF config.customSoundPath.form # "empty"
           THEN /\ reloads' = [reloads EXCEPT ![i] =
                        [@ EXCEPT !.pc = "fallback", !.validationError = validationError]]
                /\ UNCHANGED <<soundPathReady, phase>>
           ELSE /\ soundPathReady' = FALSE
                /\ ReloadEnds(i)
    /\ lastEvent' = NoEvent
    /\ UNCHANGED lastCompletion
    /\ UNCHANGED <<ctrlEnv, config, resolvedSoundPath, lastPlaybackError, plays, playLog>>
    /\ UNCHANGED <<gateVars, stripVars, matcherVars>>

\* reloadConfiguration after `await validateSoundPath(fallbackPath)`
ReloadFallbackValidated(i) ==
    /\ i \in 1..Len(reloads)
    /\ reloads[i].pc = "fallback"
    /\ LET fallbackPath == resolveBundledSoundPath
           fallbackError == validateSoundPath(fallbackPath, readable)
       IN  IF fallbackError = "none"
           THEN /\ resolvedSoundPath' = fallbackPath
                /\ soundPathReady' = TRUE
           ELSE /\ soundPathReady' = FALSE
                /\ UNCHANGED resolvedSoundPath
    /\ ReloadEnds(i)
    /\ lastEvent' = NoEvent
    /\ UNCHANGED lastCompletion
    /\ UNCHANGED <<ctrlEnv, config, lastPlaybackError, plays, playLog>>
    /\ UNCHANGED <<gateVars, stripVars, matcherVars>>

\* mutant: the output-scanning switch is not looked at
ScansOutput_AnyTime(cfg) == cfg.enabled /\ Len(cfg.compiledPatterns) # 0

\* onTerminalData: the two early returns
ScansOutput(cfg) ==
    /\ cfg.enabled /\ cfg.outputScanningEnabled
    /\ Len(cfg.compiledPatterns) # 0

\* onDidWriteTerminalData: onTerminalData(event)
TerminalData(session, chunk) ==
    /\ phase = "ready"
    /\ Remembered(hist) < MaxScanned
    /\ Len(plays) < MaxPlays
    /\ IF ~ScansOutput(config)
       THEN /\ UNCHANGED <<debounceGate, buffers, hist, plays, lastPlaybackError,
                           lastCompletion, playLog>>
            /\ lastEvent' = [kind |-> "data", scanned |-> FALSE,
                             matched |-> FALSE, asked |-> FALSE, play |-> FALSE,
                             threw |-> FALSE, notified |-> FALSE]
       ELSE LET r == matcherMatches(buffers, maxBufferChars, session, chunk,
                                    config.compiledPatterns)
                t == triggerSound(soundPathReady, debounceGate, clock)
            IN  IF ~r.ok
                THEN /\ buffers' = r.buffers
                     /\ hist' = [hist EXCEPT ![session] =
                                    Append(@, [chunk |-> chunk, ok |-> FALSE])]
                     /\ UNCHANGED <<debounceGate, plays, lastPlaybackError,
                                    lastCompletion, playLog>>
                     /\ lastEvent' = [kind |-> "data",
                                      scanned |-> TRUE, matched |-> FALSE,
                                      asked |-> FALSE, play |-> FALSE,
                                      threw |-> FALSE, notified |-> FALSE]
                ELSE /\ buffers' = matcherClear(r.buffers, session)
                     /\ hist' = [hist EXCEPT ![session] = <<>>]
                     /\ TriggerSoundStep(t, session, "pattern")
                     /\ lastEvent' = [kind |-> "data", session |-> session,
                                      scanned |-> TRUE, matched |-> TRUE,
                                      asked |-> t.asked, play |-> t.play,
                                      threw |-> PlaySoundIf(t.play).threw,
                                      notified |-> PlaySoundIf(t.play).notified]
    /\ UNCHANGED <<ctrlEnv, phase, config, resolvedSoundPath, soundPathReady, reloads>>
    /\ UNCHANGED <<gateObs, stripVars, maxBufferChars, matcherArg>>

\* mutant: the ignore list is not consulted
ExitCodeAlerts_NoIgnoreList(cfg, exit) ==
    cfg.enabled /\ exit.given /\ exit.code # 0

\* mutant: a missing exit code is taken for a failure
ExitCodeAlerts_UndefinedFails(cfg, exit) ==
    /\ cfg.enabled
    /\ ~exit.given \/ ~(exit.code = 0 \/ exit.code \in cfg.ignoreExitCodeSet)

\* onTerminalExecutionEnd: the three early returns
ExitCodeAlerts(cfg, exit) ==
    /\ cfg.enabled
    /\ exit.given
    /\ ~(exit.code = 0 \/ exit.code \in cfg.ignoreExitCodeSet)

\* onDidEndTerminalShellExecution: onTerminalExecutionEnd(event)
TerminalExecutionEnd(session, exit) ==
    /\ phase = "ready"
    /\ Len(plays) < MaxPlays
    /\ IF ~ExitCodeAlerts(config, exit)
       THEN /\ UNCHANGED <<debounceGate, plays, lastPlaybackError, lastCompletion, playLog>>
            /\ lastEvent' = [kind |-> "exit", exit |-> exit,
                             asked |-> FALSE, play |-> FALSE,
                             threw |-> FALSE, notified |-> FALSE]
       ELSE LET t == triggerSound(soundPathReady, debounceGate, clock)
            IN  /\ TriggerSoundStep(t, session, "exitCode")
                /\ lastEvent' = [kind |-> "exit", exit |-> exit,
                                 asked |-> t.asked, play |-> t.play,
                                 threw |-> PlaySoundIf(t.play).threw,
                                 notified |-> PlaySoundIf(t.play).notified]
    /\ UNCHANGED <<ctrlEnv, phase, config, resolvedSoundPath, soundPathReady, reloads>>
    /\ UNCHANGED <<gateObs, stripVars, matcherVars>>

\* onDidCloseTerminal: this.matcher.clear(terminal)
TerminalClosed(session) ==
    /\ phase = "ready"
    /\ buffers' = matcherClear(buffers, session)
    /\ hist' = [hist EXCEPT ![session] = <<>>]
    /\ lastEvent' = [kind |-> "closed", session |-> session]
    /\ UNCHANGED lastCompletion
    /\ UNCHANGED <<ctrlEnv, ctrlFields, ctrlAsync, playLog>>
    /\ UNCHANGED <<gateVars, stripVars, maxBufferChars, matcherArg>>

\* the command faaahSound.playTestSound: playTestSound()
PlayTestSoundCommand ==
    /\ phase = "ready"
    /\ Len(plays) < MaxPlays
    /\ LET p == PlaySoundIf(soundPathReady)
       IN  /\ plays' = p.plays
           /\ lastPlaybackError' = p.lastPlaybackError
           /\ lastCompletion' = IF p.threw THEN "unsupported format" ELSE lastCompletion
           /\ lastEvent' = [kind |-> "testSound", play |-> soundPathReady,
                            threw |-> p.threw, notified |-> p.notified]
    /\ UNCHANGED <<ctrlEnv, phase, config, resolvedSoundPath, soundPathReady, reloads, playLog>>
    /\ UNCHANGED <<gateVars, stripVars, matcherVars>>

\* mutant: a playback that failed reopens the gate, so that the next alert
\* is played at once
PlaybackDone_FailureReopensGate(i, failure) ==
    /\ i \in 1..Len(plays)
    /\ failure \in PlayOutcomes
    /\ plays' = RemoveAt(plays, i)
    /\ LET r == playbackEnded(lastPlaybackError, failure)
       IN  /\ lastPlaybackError' = r.lastPlaybackError
           /\ lastEvent' = [kind |-> "playbackDone", failure |-> failure,
                            notified |-> r.notified]
    /\ lastCompletion' = failure
    /\ debounceGate' = IF failure = "" THEN debounceGate
                       ELSE [debounceGate EXCEPT !.lastTriggeredAt = 0]
    /\ UNCHANGED <<ctrlEnv, phase, config, resolvedSoundPath, soundPathReady, reloads, playLog>>
    /\ UNCHANGED <<gateObs, stripVars, matcherVars>>

\* playSound after `await this.soundPlayer.play(...)`: failure is "" when
\* the player succeeded
PlaybackDone(i, failure) ==
    /\ i \in 1..Len(plays)
    /\ failure \in PlayOutcomes
    /\ plays' = RemoveAt(plays, i)
    /\ LET r == playbackEnded(lastPlaybackError, failure)
       IN  /\ lastPlaybackError' = r.lastPlaybackError
           /\ lastEvent' = [kind |-> "playbackDone", failure |-> failure,
                            notified |-> r.notified]
    /\ lastCompletion' = failure
    /\ UNCHANGED <<ctrlEnv, phase, config, resolvedSoundPath, soundPathReady, reloads, playLog>>
    /\ UNCHANGED <<gateVars, stripVars, matcherVars>>

\* a millisecond passes
Tick ==
    /\ clock < Epoch + MaxTicks
    /\ clock' = clock + 1
    /\ lastEvent' = NoEvent
    /\ UNCHANGED lastCompletion
    /\ UNCHANGED <<settings, readable, ctrlFields, ctrlAsync, playLog>>
    /\ UNCHANGED <<gateVars, stripVars, matcherVars>>

Init ==
    /\ CtrlConstructed
    /\ settings \in SettingsChoices
    /\ readable \in FileSystems
    /\ debounceGate = NewDebounceGate(DEFAULT_DEBOUNCE_MS)
    /\ GateObsInit
    /\ StripIdle
    /\ MatcherFresh

Next ==
    \/ Activate
    \/ \E new \in SettingsChoices : Len(reloads) < MaxReloads /\ ConfigurationChanged(new)
    \/ Len(reloads) < MaxReloads /\ ToggleCommand
    \/ \E i \in 1..MaxReloads : ReloadValidated(i)
    \/ \E i \in 1..MaxReloads : ReloadFallbackValidated(i)
    \/ \E session \in Sessions, chunk \in CtrlChunks : TerminalData(session, chunk)
    \/ \E session \in Sessions, exit \in ExitCodes : TerminalExecutionEnd(session, exit)
    \/ \E session \in Sessions : TerminalClosed(session)
    \/ PlayTestSoundCommand
    \/ \E i \in 1..MaxPlays, failure \in PlayOutcomes : PlaybackDone(i, failure)
    \/ Tick

Spec == Init /\ [][Next]_vars

(***************************************************************************)
(* The controller's configuration on its own: activation, changes of the   *)
(* settings and the reloads they start, with no terminal event and no      *)
(* playback, over a wider range of setting values.                         *)
(***************************************************************************)
\* faaahSound.debounceMs: not set, -0.5, -7, 0, 0.9, 1.8, 59999.9, 60000,
\* 60000.1, 70000, NaN, +Infinity, -Infinity, "250", [5]
DebounceRaws ==
    { JsUndefined, JsNumber(-5), JsNumber(-70), JsNumber(0), JsNumber(9), JsNumber(18),
      JsNumber(599999), JsNumber(600000), JsNumber(600001), JsNumber(700000),
      JsNaN, JsInfinity, JsNegInfinity,
      JsString(<<50, 53, 48>>), JsArray(<<JsNumber(50)>>) }

\* faaahSound.errorPatterns: not set, "ab", an object, [], ["ab"],
\* [" ab ", "", "  "], ["[bad", "ab"], ["ab", 5, "[bad", [], "Error", "[x"],
\* ["[x", "[bad"], ["ab", "ab"]
PatternRaws ==
    { JsUndefined, JsString(<<97, 98>>), JsObject, JsArray(<<>>),
      JsArray(<<JsString(<<97, 98>>)>>),
      JsArray(<<JsString(<<32, 97, 98, 32>>), JsString(<<>>), JsString(<<32, 32>>)>>),
      JsArray(<<JsString(<<91, 98, 97, 100>>), JsString(<<97, 98>>)>>),
      JsArray(<<JsString(<<97, 98>>), JsNumber(50), JsString(<<91, 98, 97, 100>>),
                JsArray(<<>>), JsString(<<69, 114, 114, 111, 114>>), JsString(<<91, 120>>)>>),
      JsArray(<<JsString(<<91, 120>>), JsString(<<91, 98, 97, 100>>)>>),
      JsArray(<<JsString(<<97, 98>>), JsString(<<97, 98>>)>>) }

\* faaahSound.ignoreExitCodes: not set, "130", an object, [], [130],
\* [2, "9", 0, 130], [2.7, -2.7, 0.5, 2, -0.5], [NaN, Infinity, 1, -Infinity],
\* [1, 1, 2, 1], [0, "0", undefined]
IgnoreRaws ==
    { JsUndefined, JsString(<<49, 51, 48>>), JsObject, JsArray(<<>>),
      JsArray(<<JsNumber(1300)>>),
      JsArray(<<JsNumber(20), JsString(<<57>>), JsNumber(0), JsNumber(1300)>>),
      JsArray(<<JsNumber(27), JsNumber(-27), JsNumber(5), JsNumber(20), JsNumber(-5)>>),
      JsArray(<<JsNaN, JsInfinity, JsNumber(10), JsNegInfinity>>),
      JsArray(<<JsNumber(10), JsNumber(10), JsNumber(20), JsNumber(10)>>),
      JsArray(<<JsNumber(0), JsString(<<48>>), JsUndefined>>) }

\* settings with nothing set but "enabled"
UnsetSettings ==
    [enabled |-> TRUE, customSoundPath |-> EmptyPath, outputScanningEnabled |-> TRUE,
     debounceMs |-> JsUndefined, errorPatterns |-> JsUndefined,
     ignoreExitCodes |-> JsUndefined]

\* the settings of SettingsChoices, and those with one of debounceMs,
\* errorPatterns and ignoreExitCodes set
ReloadSettings ==
    SettingsChoices
        \cup { [UnsetSettings EXCEPT !.debounceMs = raw] : raw \in DebounceRaws }
        \cup { [UnsetSettings EXCEPT !.errorPatterns = raw] : raw \in PatternRaws }
        \cup { [UnsetSettings EXCEPT !.ignoreExitCodes = raw] : raw \in IgnoreRaws }

ReloadInit ==
    /\ CtrlConstructed
    /\ settings \in ReloadSettings
    /\ readable \in FileSystems
    /\ debounceGate = NewDebounceGate(DEFAULT_DEBOUNCE_MS)
    /\ GateObsInit
    /\ StripIdle
    /\ MatcherFresh

ReloadNext ==
    \/ Activate
    \/ \E new \in ReloadSettings : Len(reloads) < MaxOverlap /\ ConfigurationChanged(new)
    \/ Len(reloads) < MaxOverlap /\ ToggleCommand
    \/ \E i \in 1..MaxOverlap : ReloadValidated(i)
    \/ \E i \in 1..MaxOverlap : ReloadFallbackValidated(i)

SpecReload == ReloadInit /\ [][ReloadNext]_vars

(***************************************************************************)
(* Claims about the gate on its own (SpecGate).                            *)
(***************************************************************************)
\* the log holds three canTrigger calls in a row (no updateDebounceMs in
\* between) at strictly increasing times under a positive window
ThreeCalls ==
    /\ Len(gateLog) = 3
    /\ \A i \in 1..3 : gateLog[i].op = "canTrigger"
    /\ gateLog[1].now < gateLog[2].now /\ gateLog[2].now < gateLog[3].now
    /\ gateLog[1].window > 0

\* C1 as stated: with calls at t0 < t1 < t2 under a positive window w and no
\* update in between, if canTrigger(t0) is true then canTrigger(t1) is false
\* whenever t1 - t0 < w, and canTrigger(t2) is true whenever t2 - t0 >= w.
C1_AsStated ==
    (ThreeCalls /\ gateLog[1].ok) =>
        /\ (gateLog[2].now - gateLog[1].now < gateLog[1].window => ~gateLog[2].ok)
        /\ (gateLog[3].now - gateLog[1].now >= gateLog[1].window => gateLog[3].ok)

\* C1 amended: with calls at t0 < t1 < t2 under a positive window w and no
\* update in between, if canTrigger(t0) is true then canTrigger(t1) is false
\* whenever t1 - t0 < w, and canTrigger(t2) is true whenever t2 - t0 >= w and
\* t1 - t0 < w (the call at t1 was suppressed, so the window still counts
\* from t0).
C1_BlocksWithinWindowThenAllows ==
    (ThreeCalls /\ gateLog[1].ok) =>
        /\ (gateLog[2].now - gateLog[1].now < gateLog[1].window => ~gateLog[2].ok)
        /\ (/\ gateLog[3].now - gateLog[1].now >= gateLog[1].window
            /\ gateLog[2].now - gateLog[1].now < gateLog[1].window
            => gateLog[3].ok)

C1_Witness ==
    /\ ThreeCalls
    /\ gateLog[1].ok /\ ~gateLog[2].ok /\ gateLog[3].ok
    /\ gateLog[2].now - gateLog[1].now < gateLog[1].window
    /\ gateLog[3].now - gateLog[1].now >= gateLog[1].window

\* C2: whenever canTrigger(now) returns true while the window w is positive,
\* now minus the time of the previous allowed trigger is at least w, whatever
\* canTrigger and updateDebounceMs calls came before.
C2_AllowedOnlyAfterWindow ==
    \A i \in 1..Len(gateLog) :
        (/\ gateLog[i].op = "canTrigger" /\ gateLog[i].ok
         /\ gateLog[i].window > 0 /\ gateLog[i].prev >= 0)
        => gateLog[i].now - gateLog[i].prev >= gateLog[i].window

\* an allowed call under a positive window that follows an allowed call and a
\* change of the window
C2_Witness ==
    /\ Len(gateLog) = 3
    /\ gateLog[1].op = "canTrigger" /\ gateLog[1].ok
    /\ gateLog[2].op = "updateDebounceMs"
    /\ gateLog[3].op = "canTrigger" /\ gateLog[3].ok
    /\ gateLog[3].window > 0 /\ gateLog[3].window # gateLog[1].window
    /\ gateLog[3].prev = gateLog[1].now

\* C3: when the gate's window is 0, canTrigger returns true for every call,
\* whatever the timestamps (equal or decreasing ones included).
C3_ZeroWindowAlwaysAllows ==
    \A i \in 1..Len(gateLog) :
        (gateLog[i].op = "canTrigger" /\ gateLog[i].window = 0) => gateLog[i].ok

\* three allowed zero-window calls, the second at the time of the first and
\* the third earlier
C3_Witness ==
    /\ Len(gateLog) = 3
    /\ \A i \in 1..3 : gateLog[i].op = "canTrigger" /\ gateLog[i].window = 0 /\ gateLog[i].ok
    /\ gateLog[2].now = gateLog[1].now
    /\ gateLog[3].now < gateLog[2].now

\* C4 as stated: the first canTrigger(now) call on a newly constructed gate
\* returns true for every window and every timestamp now >= 0.
C4_FirstCallAllowed ==
    (firstCall.made /\ firstCall.fresh) => firstCall.ok

(***************************************************************************)
(* Claims about stripAnsiSequences on its own (SpecStrip).                 *)
(***************************************************************************)
\* C8 as stated: stripAnsiSequences is idempotent: for every string s,
\* stripAnsiSequences(stripAnsiSequences(s)) = stripAnsiSequences(s).
C8_StripIdempotent ==
    stripPc = "twice" => stripTwice = stripOnce

(***************************************************************************)
(* Claims about the matcher on its own (SpecMatcher).                      *)
(***************************************************************************)
\* some pattern of the list matches the text (a plain substring search,
\* letter case ignored)
AnyPatternIn(text) ==
    \E n \in 1..Len(MatcherPatterns) :
        \E i \in 1..(Len(text) - Len(MatcherPatterns[n].lit) + 1) :
            \A j \in 1..Len(MatcherPatterns[n].lit) :
                FoldCase(text[i + j - 1]) = FoldCase(MatcherPatterns[n].lit[j])

\* C5 as stated: for a session with an empty buffer and chunks c1, c2 such
\* that a pattern matches the ANSI-stripped concatenation c1+c2 and neither
\* piece alone (stripped or not), matches(key, c1) returns false and the
\* following matches(key, c2) returns true.
C5_MatchAcrossChunks ==
    \A k \in Sessions :
        (/\ Len(hist[k]) >= 2
         /\ AnyPatternIn(stripAnsiSequences(hist[k][1].chunk \o hist[k][2].chunk))
         /\ ~AnyPatternIn(hist[k][1].chunk)
         /\ ~AnyPatternIn(hist[k][2].chunk)
         /\ ~AnyPatternIn(stripAnsiSequences(hist[k][1].chunk))
         /\ ~AnyPatternIn(stripAnsiSequences(hist[k][2].chunk)))
        => (~hist[k][1].ok /\ hist[k][2].ok)

\* the text of a session's buffer, empty when it has none
TextOf(bufs, k) == IF k \in DOMAIN bufs THEN bufs[k] ELSE <<>>

\* a matcher given only the calls h (one session's calls since its clear), in
\* their order: the buffers after them and the values they returned
RECURSIVE Alone(_, _)
Alone(k, h) ==
    IF h = <<>> THEN [buffers |-> <<>>, oks |-> <<>>]
    ELSE LET before == Alone(k, SubSeq(h, 1, Len(h) - 1))
             r == matcherMatches(before.buffers, maxBufferChars, k,
                                 h[Len(h)].chunk, MatcherPatterns)
         IN  [buffers |-> r.buffers, oks |-> Append(before.oks, r.ok)]

\* C6: for any interleaving of matches and clear calls on two sessions, every
\* matches result and every buffer of a session is what it would be had only
\* that session's calls been made, in their own order.
C6_SessionsIsolated ==
    \A k \in Sessions :
        LET alone == Alone(k, hist[k])
        IN  /\ (k \in DOMAIN buffers) = (k \in DOMAIN alone.buffers)
            /\ TextOf(buffers, k) = TextOf(alone.buffers, k)
            /\ \A i \in 1..Len(hist[k]) : hist[k][i].ok = alone.oks[i]

\* the two sessions have been fed in turn, differently, one of them matching
\* across its two chunks while the other holds other text
C6_Witness ==
    /\ Len(hist[1]) = 2 /\ Len(hist[2]) = 2
    /\ ~hist[1][1].ok /\ hist[1][2].ok
    /\ ~hist[2][1].ok /\ ~hist[2][2].ok
    /\ buffers[1] # buffers[2]

\* the ANSI-stripped chunks of h, concatenated
RECURSIVE Fed(_)
Fed(h) ==
    IF h = <<>> THEN <<>>
    ELSE Fed(SubSeq(h, 1, Len(h) - 1)) \o stripAnsiSequences(h[Len(h)].chunk)

\* the last n characters of s (all of s when it is shorter)
LastChars(s, n) == [i \in 1..(IF Len(s) < n THEN Len(s) ELSE n) |->
                        s[i + (IF Len(s) < n THEN 0 ELSE Len(s) - n)]]

\* the cap the constructor's argument stands for: the argument (the default
\* when there is none) raised to the minimum
EffectiveMax ==
    LET given == IF matcherArg.given THEN matcherArg.value ELSE DefaultBufferChars
    IN  IF given < MinBufferChars THEN MinBufferChars ELSE given

\* C7: after any sequence of matches and clear calls, every session buffer is
\* at most the effective maximum long and is the trailing characters of the
\* concatenation of the ANSI-stripped chunks fed to the session since its
\* last clear.
C7_BufferIsBoundedSuffix ==
    \A k \in Sessions :
        /\ Len(TextOf(buffers, k)) <= EffectiveMax
        /\ TextOf(buffers, k) = LastChars(Fed(hist[k]), EffectiveMax)

\* a session fed more than the cap in several chunks, one of them holding an
\* escape sequence, whose buffer is full
C7_Witness ==
    \E k \in Sessions :
        /\ Len(hist[k]) >= 3
        /\ Len(Fed(hist[k])) > EffectiveMax + 1
        /\ Len(buffers[k]) = EffectiveMax
        /\ \E i \in 1..Len(hist[k]) :
              stripAnsiSequences(hist[k][i].chunk) # hist[k][i].chunk
        /\ buffers[k][1] # buffers[k][EffectiveMax]

(***************************************************************************)
(* Claims about the controller (specification Spec).                       *)
(***************************************************************************)
\* the exit code of event e does not qualify for an alert under cfg:
\* undefined, 0, or in the ignore set
Unqualified(cfg, e) ==
    ~e.given \/ e.code = 0 \/ e.code \in cfg.ignoreExitCodeSet

\* C9: a terminal exit event whose exit code is undefined, is 0 or is in the
\* current ignoreExitCodeSet causes no playback request and leaves the
\* debounce gate as it was; the gate is asked on an exit event only when the
\* extension is enabled and the code is numeric, non-zero and not ignored.
C9_IgnoredExitsNeverReachGate ==
    [][ lastEvent'.kind = "exit" =>
            /\ Unqualified(config, lastEvent'.exit) =>
                    /\ debounceGate' = debounceGate
                    /\ plays' = plays
                    /\ playLog' = playLog
                    /\ ~lastEvent'.asked /\ ~lastEvent'.play
            /\ lastEvent'.asked =>
                    config.enabled /\ ~Unqualified(config, lastEvent'.exit)
      ]_vars

\* an exit with a non-zero code of the ignore set has just been handled,
\* while the extension was enabled, the sound was ready and the gate would
\* have allowed a trigger
C9_Witness ==
    /\ lastEvent.kind = "exit"
    /\ lastEvent.exit.given /\ lastEvent.exit.code # 0
    /\ lastEvent.exit.code \in config.ignoreExitCodeSet
    /\ config.enabled /\ soundPathReady
    /\ canTrigger(debounceGate, clock).ok
    /\ ~lastEvent.asked

\* C10: the gate is shared by all sessions: under a fixed positive window w,
\* the last two playback requests issued through triggerSound are at least w
\* apart, whichever sessions and whichever kinds of event they came from.
\* (playLog holds the requests made since the window last changed.)
C10_RequestsAtLeastWindowApart ==
    Len(playLog) = 2 /\ debounceGate.debounceMs > 0 =>
        playLog[2].at - playLog[1].at >= debounceGate.debounceMs

\* two requests under a positive window, from different sessions, one for a
\* pattern match and one for an exit code
C10_Witness ==
    /\ Len(playLog) = 2 /\ debounceGate.debounceMs > 0
    /\ playLog[1].session # playLog[2].session
    /\ playLog[1].reason # playLog[2].reason

\* C11: a reload is atomic for the event handlers: whenever a terminal-data
\* or exit handler requests playback, soundPathReady and resolvedSoundPath
\* come from one configuration read, so the path handed to the player is one
\* that validated.
C11_PlaybackPathValidated ==
    lastEvent.kind \in {"data", "exit"} /\ lastEvent.play =>
        validateSoundPath(resolvedSoundPath, readable) = "none"

\* event e is a step in which a playSound call ended: the player finished,
\* or soundPlayer.play threw before starting one
PlaySoundEnded(e) ==
    \/ e.kind = "playbackDone"
    \/ e.kind \in {"data", "exit", "testSound"} /\ e.threw

\* the failure message that playSound call ended with ("": success)
FailureOf(e) == IF e.kind = "playbackDone" THEN e.failure ELSE "unsupported format"

\* C12: playback failures are surfaced once: when a playSound call ends, an
\* error notification is shown exactly when it failed with a message that
\* differs from the failure message of the previous call to end (none if
\* that one succeeded), so identical consecutive failures are shown once
\* until a different failure or a success comes between.
C12_FailureNotifiedOnce ==
    [][ PlaySoundEnded(lastEvent') =>
            (lastEvent'.notified <=>
                FailureOf(lastEvent') # "" /\ FailureOf(lastEvent') # lastCompletion)
      ]_vars

\* a playback has just failed with the same message as the one before it,
\* and nothing was shown
C12_Witness ==
    /\ lastEvent.kind = "playbackDone"
    /\ lastEvent.failure # ""
    /\ lastEvent.failure = lastCompletion
    /\ lastEvent.failure = lastPlaybackError
    /\ ~lastEvent.notified

\* C13: while config.enabled is false, a terminal-data or exit event causes
\* no playback request and changes neither the matcher's buffers nor the
\* gate; while outputScanningEnabled is false or no pattern is compiled, a
\* terminal-data event causes no playback request and leaves every session's
\* buffer as it was.
C13_DisabledMeansUntouched ==
    [][ lastEvent'.kind \in {"data", "exit"} =>
            /\ ~config.enabled =>
                    /\ ~lastEvent'.play
                    /\ plays' = plays /\ playLog' = playLog
                    /\ buffers' = buffers
                    /\ debounceGate' = debounceGate
            /\ /\ lastEvent'.kind = "data"
               /\ ~config.outputScanningEnabled \/ Len(config.compiledPatterns) = 0
               => /\ ~lastEvent'.play
                  /\ plays' = plays /\ playLog' = playLog
                  /\ buffers' = buffers
      ]_vars

\* a terminal-data event has just been dropped because scanning is switched
\* off, while the extension was enabled, patterns were compiled and the sound
\* was ready
C13_Witness ==
    /\ lastEvent.kind = "data" /\ ~lastEvent.scanned
    /\ config.enabled /\ ~config.outputScanningEnabled
    /\ Len(config.compiledPatterns) > 0
    /\ soundPathReady

(***************************************************************************)
(* Claims about the configuration (specification SpecReload).  After       *)
(* activation config is what the latest reload read from settings.         *)
(***************************************************************************)
\* the value readRuntimeConfig hands to parseErrorPatterns
ErrorPatternsRead ==
    GetSetting(settings.errorPatterns,
               JsArray([i \in 1..Len(DEFAULT_ERROR_PATTERNS) |->
                           JsString(DEFAULT_ERROR_PATTERNS[i])]))

\* text from its first to its last character that is not white space
Trimmed(text) ==
    LET inked == {i \in 1..Len(text) : ~IsSpace(text[i])}
    IN  IF inked = {} THEN <<>>
        ELSE SubSeq(text, CHOOSE i \in inked : \A j \in inked : i <= j,
                          CHOOSE i \in inked : \A j \in inked : i >= j)

\* the entries of a sequence raw: its string elements, trimmed, without the
\* empty ones, in input order
EntriesOf(raw) ==
    LET strings == SelectSeq(raw.items, LAMBDA v : v.type = "string")
        trimmed == [i \in 1..Len(strings) |-> Trimmed(strings[i].text)]
    IN  SelectSeq(trimmed, LAMBDA t : Len(t) > 0)

\* C14: parseErrorPatterns partitions its input: for a raw value that is not
\* a sequence the result is the five built-in patterns compiled and nothing
\* invalid; for a sequence, its entries (string elements, trimmed, empty ones
\* dropped) that compile are `compiled` and those that do not are `invalid`,
\* each in input order, every entry in exactly one of the two.
C14_PatternsPartitioned ==
    phase # "constructed" =>
        LET raw == ErrorPatternsRead
            compiled == config.compiledPatterns
            invalid == config.invalidPatterns
        IN  IF raw.type # "array"
            THEN /\ Len(compiled) = 5 /\ invalid = <<>>
                 /\ \A i \in 1..5 :
                        /\ CompileRegExp(DEFAULT_ERROR_PATTERNS[i]).ok
                        /\ compiled[i] = CompileRegExp(DEFAULT_ERROR_PATTERNS[i]).regexp
            ELSE LET entries == EntriesOf(raw)
                     good == SelectSeq(entries, LAMBDA t : CompileRegExp(t).ok)
                     bad == SelectSeq(entries, LAMBDA t : ~CompileRegExp(t).ok)
                 IN  /\ compiled = [i \in 1..Len(good) |-> CompileRegExp(good[i]).regexp]
                     /\ invalid = bad
                     /\ Len(compiled) + Len(invalid) = Len(entries)

\* a reload has read a sequence with a non-string element, several entries
\* that compile and several that do not
C14_Witness ==
    /\ phase = "ready"
    /\ settings.errorPatterns.type = "array"
    /\ \E i \in 1..Len(settings.errorPatterns.items) :
            settings.errorPatterns.items[i].type # "string"
    /\ Len(config.compiledPatterns) >= 2
    /\ Len(config.invalidPatterns) >= 2

\* the value readRuntimeConfig hands to normalizeIgnoreExitCodes
IgnoreExitCodesRead ==
    GetSetting(settings.ignoreExitCodes, JsArray(DEFAULT_IGNORE_EXIT_CODES))

\* the integer part of t/10: the integer nearest to it between it and zero
TowardZero(t) ==
    LET size == IF t >= 0 THEN t ELSE -t
    IN  CHOOSE n \in (-size)..size :
            IF t >= 0 THEN n * 10 <= t /\ t < n * 10 + 10
            ELSE n * 10 >= t /\ t > n * 10 - 10

\* C15: normalizeIgnoreExitCodes returns a duplicate-free collection of
\* non-zero integers: 130 alone for a raw value that is not a sequence,
\* otherwise exactly the truncations toward zero of the finite number
\* elements that do not truncate to 0 (no other element counts, numeric
\* strings included); so the snapshot's ignoreExitCodeSet never holds 0.
C15_IgnoreCodesNormalized ==
    LET raw == IgnoreExitCodesRead
        out == normalizeIgnoreExitCodes(raw)
        codes == {out[i] : i \in 1..Len(out)}
        expected ==
            IF raw.type # "array" THEN {130}
            ELSE {TowardZero(raw.items[i].tenths) :
                    i \in {j \in 1..Len(raw.items) : IsFiniteNumber(raw.items[j])}} \ {0}
    IN  /\ \A i, j \in 1..Len(out) : out[i] = out[j] => i = j
        /\ codes = expected
        /\ 0 \notin codes
        /\ phase # "constructed" => config.ignoreExitCodeSet = codes
        /\ 0 \notin config.ignoreExitCodeSet

\* a reload has read [2.7, -2.7, 0.5, 2, -0.5]: two elements truncate to 2,
\* two to 0
C15_Witness ==
    /\ phase = "ready"
    /\ settings.ignoreExitCodes =
          JsArray(<<JsNumber(27), JsNumber(-27), JsNumber(5), JsNumber(20), JsNumber(-5)>>)
    /\ config.ignoreExitCodeSet = {2, -2}

\* the value readRuntimeConfig hands to normalizeDebounceMs
DebounceMsRead ==
    GetSetting(settings.debounceMs, JsNumber(DEFAULT_DEBOUNCE_MS * 10))

\* C16: normalizeDebounceMs returns an integer in [0, 60000]: 1200 when raw
\* is not a finite number, otherwise raw clamped to [0, 60000] and truncated
\* toward zero; so after any sequence of reloads the gate's window equals the
\* snapshot's debounceMs and lies in [0, 60000].
C16_DebounceMsNormalized ==
    LET raw == DebounceMsRead
        out == normalizeDebounceMs(raw)
    IN  /\ out \in 0..60000
        /\ ~IsFiniteNumber(raw) => out = 1200
        /\ IsFiniteNumber(raw) =>
              /\ raw.tenths <= 0 => out = 0
              /\ raw.tenths >= 600000 => out = 60000
              /\ raw.tenths > 0 /\ raw.tenths < 600000 =>
                    out * 10 <= raw.tenths /\ raw.tenths < out * 10 + 10
        /\ phase # "constructed" => config.debounceMs = out
        /\ debounceGate.debounceMs = config.debounceMs
        /\ debounceGate.debounceMs \in 0..60000

\* a reload has read 60000.1 and the gate's window is 60000
C16_Witness ==
    /\ phase = "ready"
    /\ settings.debounceMs = JsNumber(600001)
    /\ config.debounceMs = 60000
    /\ debounceGate.debounceMs = 60000

\* C17: an invalid custom sound falls back to the bundled one: once the
\* reloads have completed, a non-empty customSoundPath that fails validation
\* with a bundled file that validates means soundPathReady is true and
\* resolvedSoundPath is the bundled sound, and soundPathReady is false only
\* when neither the custom nor the bundled path is valid.
C17_FallsBackToBundled ==
    phase = "ready" /\ reloads = <<>> =>
        LET custom == resolveSoundPath(config.customSoundPath)
            customValid == validateSoundPath(custom, readable) = "none"
            bundledValid == validateSoundPath(resolveBundledSoundPath, readable) = "none"
        IN  /\ config.customSoundPath.form # "empty" /\ ~customValid /\ bundledValid =>
                    soundPathReady /\ resolvedSoundPath = resolveBundledSoundPath
            /\ ~soundPathReady => ~customValid /\ ~bundledValid

(***************************************************************************)
(* More claims about the gate on its own (specification SpecGate).         *)
(***************************************************************************)
\* the last three calls were canTrigger, updateDebounceMs, canTrigger
TriggerUpdateTrigger ==
    /\ Len(gateLog) = 3
    /\ gateLog[1].op = "canTrigger"
    /\ gateLog[2].op = "updateDebounceMs"
    /\ gateLog[3].op = "canTrigger"

\* C18: updateDebounceMs replaces the window and leaves lastTriggeredAt
\* alone: after an allowed trigger at t and an update to the window w',
\* canTrigger(now) is true exactly when w' is 0 or now - t >= w'; a shrunk
\* window can allow what the old one would suppress and a grown one
\* suppresses longer, both counted from t.
C18_UpdateKeepsLastTrigger ==
    TriggerUpdateTrigger /\ gateLog[1].ok =>
        (gateLog[3].ok <=>
            \/ gateLog[3].window = 0
            \/ gateLog[3].now - gateLog[1].now >= gateLog[3].window)

\* a trigger the old window 2 would have suppressed is allowed after the
\* window shrank to 1
C18_Witness ==
    /\ TriggerUpdateTrigger
    /\ gateLog[1].ok /\ gateLog[1].window = 2 /\ gateLog[1].now > 1
    /\ gateLog[3].window = 1
    /\ gateLog[3].now - gateLog[1].now = 1
    /\ gateLog[3].ok

\* C19: with window 0, canTrigger(t) still records t: when the window is
\* then raised to w > 0, canTrigger(t') is false for every t' with
\* t' - t < w.
C19_ZeroWindowRecordsTime ==
    (/\ TriggerUpdateTrigger
     /\ gateLog[1].window = 0
     /\ gateLog[3].window > 0
     /\ gateLog[3].now - gateLog[1].now < gateLog[3].window)
    => ~gateLog[3].ok

\* a zero-window call at t > 0, then the window raised to w, then a call
\* less than w after t that an earlier reference time would have allowed
C19_Witness ==
    /\ TriggerUpdateTrigger
    /\ gateLog[1].window = 0 /\ gateLog[1].ok
    /\ gateLog[1].prev >= 0 /\ gateLog[1].prev < gateLog[1].now
    /\ gateLog[3].window > 0
    /\ gateLog[3].now > gateLog[1].now
    /\ gateLog[3].now - gateLog[1].now < gateLog[3].window
    /\ gateLog[3].now - gateLog[1].prev >= gateLog[3].window
    /\ ~gateLog[3].ok

\* C20: a negative or non-finite window (a negative number, NaN, +Infinity,
\* -Infinity) given to the constructor or to updateDebounceMs is clamped to
\* zero, so the gate allows every call.  (Under SpecGateEdge every window
\* the gate is given is one of these, so every canTrigger call is to be
\* allowed.)
C20_BadWindowsAlwaysAllow ==
    \A i \in 1..Len(gateLog) : gateLog[i].op = "canTrigger" => gateLog[i].ok

(***************************************************************************)
(* Claims about the controller's use of the matcher and of the player      *)
(* (Spec).                                                                 *)
(***************************************************************************)
\* C21: right after a terminal-data event that matched, the session of the
\* event has no buffer, whether or not the gate was asked, allowed the alert
\* or the sound path was ready; right after a terminal is closed it has no
\* buffer; and at all times a session's buffer is the ANSI-stripped chunks
\* scanned for it since its last match or close (trimmed to the cap), so
\* that text that once matched is not matched again.
C21_MatchAndCloseDiscardBuffer ==
    /\ (lastEvent.kind = "data" /\ lastEvent.matched)
          => lastEvent.session \notin DOMAIN buffers
    /\ lastEvent.kind = "closed" => lastEvent.session \notin DOMAIN buffers
    /\ \A k \in Sessions :
          /\ (k \in DOMAIN buffers) = (hist[k] # <<>>)
          /\ TextOf(buffers, k) = LastChars(Fed(hist[k]), maxBufferChars)

\* a terminal-data event has just matched while the sound path was not
\* ready (the gate was not asked and nothing is played), and the session is
\* left without a buffer
C21_Witness ==
    /\ lastEvent.kind = "data" /\ lastEvent.matched
    /\ ~lastEvent.asked /\ ~lastEvent.play
    /\ ~soundPathReady
    /\ lastEvent.session \notin DOMAIN buffers
    /\ hist[lastEvent.session] = <<>>

\* C22: the step that starts a playback (or whose playback fails at once)
\* has already recorded the call in the gate and, for a terminal-data
\* event, discarded the session's buffer; the later end of the playback,
\* success or failure, wherever it falls among the other steps, changes
\* neither the gate, nor any session buffer, nor the configuration
\* snapshot, nor the sound path: of the controller's fields only
\* lastPlaybackError may change.
C22_PlaybackCompletionFramed ==
    [][ /\ (lastEvent'.kind \in {"data", "exit"} /\ lastEvent'.play)
              => /\ debounceGate'.lastTriggeredAt = clock
                 /\ debounceGate'.debounceMs = debounceGate.debounceMs
                 /\ Len(plays') > Len(plays) \/ lastEvent'.threw
                 /\ lastEvent'.kind = "data"
                       => lastEvent'.session \notin DOMAIN buffers'
        /\ lastEvent'.kind = "playbackDone"
              => /\ Len(plays') < Len(plays)
                 /\ UNCHANGED <<debounceGate, buffers, maxBufferChars, config,
                                resolvedSoundPath, soundPathReady, phase>>
                 /\ lastPlaybackError' # lastPlaybackError
                       => lastPlaybackError' = lastEvent'.failure ]_vars

\* a playback started by an exit code has just failed, after a millisecond
\* went by, while a session holds a buffer and the gate holds the time of
\* the call that started it
C22_Witness ==
    /\ lastEvent.kind = "playbackDone" /\ lastEvent.failure # ""
    /\ lastPlaybackError = lastEvent.failure
    /\ buffers # <<>>
    /\ Len(playLog) > 0 /\ playLog[Len(playLog)].reason = "exitCode"
    /\ debounceGate.lastTriggeredAt = playLog[Len(playLog)].at
    /\ clock > debounceGate.lastTriggeredAt
    /\ debounceGate.debounceMs > 0

(***************************************************************************)
(* A further claim about the matcher on its own (SpecMatcher).             *)
(***************************************************************************)
\* C23: after any sequence of matches calls, however the output was cut
\* into chunks, no session buffer holds a complete ANSI escape sequence:
\* stripping a buffer leaves it as it is.
C23_BuffersHoldNoEscapeSequence ==
    \A k \in Sessions :
        stripAnsiSequences(TextOf(buffers, k)) = TextOf(buffers, k)

(***************************************************************************)
(* A further claim about configuration reloads (SpecReload).               *)
(***************************************************************************)
\* what one reloadConfiguration run on its own, from start to end, leaves in
\* resolvedSoundPath and soundPathReady for the settings s
ReloadAlone(s) ==
    LET cfg == readRuntimeConfig(s)
        custom == resolveSoundPath(cfg.customSoundPath)
        bundled == resolveBundledSoundPath
    IN  IF validateSoundPath(custom, readable) = "none"
        THEN [resolvedSoundPath |-> custom, soundPathReady |-> TRUE]
        ELSE IF cfg.customSoundPath.form # "empty"
                  /\ validateSoundPath(bundled, readable) = "none"
        THEN [resolvedSoundPath |-> bundled, soundPathReady |-> TRUE]
        ELSE [resolvedSoundPath |-> custom, soundPathReady |-> FALSE]

\* C24: when reloads started by configuration changes overlap, each
\* suspended at its validation of the sound file, then once all of them
\* have completed config, the gate's window, resolvedSoundPath and
\* soundPathReady are those of the configuration read last: a reload that
\* started earlier and finished later has overwritten nothing.
C24_OverlappingReloadsEndAtLatest ==
    phase = "ready" /\ reloads = <<>> =>
        /\ config = readRuntimeConfig(settings)
        /\ debounceGate.debounceMs = config.debounceMs
        /\ resolvedSoundPath = ReloadAlone(settings).resolvedSoundPath
        /\ soundPathReady = ReloadAlone(settings).soundPathReady

====
